---- MODULE Spec2Model ----
(***************************************************************************)
(* Model of the SSH gateway of main.py: the provisioning endpoint          *)
(* generate_key, the per-connection coroutine websocket_endpoint and the   *)
(* bridge class SSHClient.                                                 *)
(*                                                                         *)
(* Every coroutine runs on one asyncio event loop, so the code between two *)
(* awaits is one atomic step.  The awaits of websocket_endpoint are:       *)
(* websocket.close / websocket.accept (lines 88, 91), receive_json (97),   *)
(* every send_json (42, 53, 55, 110, 112) and asyncio.sleep (47).          *)
(* paramiko's connect, invoke_shell, send, recv_ready and recv are         *)
(* blocking calls, not awaits.                                             *)
(***************************************************************************)
EXTENDS Naturals, Sequences, FiniteSets, TLC

\* ------------------------------------------------------------------------
\* Bounds and value sets of the environment

\* most chunks the remote shell hands to one drain loop
MaxChunks == 2

\* the connections (calls of websocket_endpoint) of a run
Conns == {"c1", "c2"}
\* the uuid4 values generate_key can draw
SessionIds == {"s1", "s2"}
Hosts == {"h1", "h2"}
Users == {"u1"}
\* "args" of an execute message; NoValue is a message without the field
NoValue == "None"
Args == {"ls", NoValue}
\* raw chunks recv() can return; "xFF" is not valid UTF-8
RawChunks == {"x61", "x62", "xFF"}

\* ------------------------------------------------------------------------
\* Values

NoSid == "nosid"
NoBridge == "nobridge"
NoChannel == "nochannel"
NoAttr == "noattr"
NoFile == "nofile"
EmptyFile == ""
NoMsg == [command |-> "nomsg"]
NoExc == "noexc"

\* private_key_pem.decode() of the key pair generated for session s
PrivateKeyPem(s) == "pem_" \o s
\* public_key_ssh.decode() of that key pair
PublicKeySsh(s) == "ssh-ed25519 pub_" \o s

\* bytes.decode('utf-8') of a raw chunk; it raises UnicodeDecodeError on
\* bytes that are not valid UTF-8
DecodeOk(b) == b /= "xFF"
DecodeUtf8(b) == CASE b = "x61" -> "a" [] b = "x62" -> "b" [] OTHER -> "?"

\* f"{username}@{host}:~$"
\* the shell channel invoke_shell returns on a transport that client.connect
\* opened to host as username
ShellOf(username, host) == "shell:" \o username \o "@" \o host

PromptText(username, host) == username \o "@" \o host \o ":~$"

OutputEvent(text) == [type |-> "output", content |-> text]
PromptEvent(text) == [type |-> "prompt", content |-> text]
ErrorEvent(text) == [type |-> "error", content |-> text]

NoActiveSession == "No active SSH session"

\* str(e) of the exception a failed connect block caught
StrExc(e) ==
    CASE e = "auth" -> "Authentication failed."
      [] e = "shell" -> "Channel closed."
      [] e = "keyerror" -> "KeyError"
      [] OTHER -> "?"

\* dict.pop(key, None)
Pop(d, k) == [x \in DOMAIN d \ {k} |-> d[x]]
\* d[key] = value
Put(d, k, v) == [x \in DOMAIN d \cup {k} |-> IF x = k THEN v ELSE d[x]]

\* ------------------------------------------------------------------------
\* State

VARIABLES
    sessions,     \* the dict sessions: session id -> private key text
    ssh_clients,  \* the dict ssh_clients: session id -> bridge (named by
                  \* the connection that built it)
    files,        \* id_ed25519_{session_id}: its content, or NoFile
    issued,       \* the session ids uuid4 has returned so far
    pc,           \* where each websocket_endpoint coroutine stands
    sid,          \* its session_id argument
    bridge,       \* its ssh_client object
    msg,          \* its local message
    exc,          \* the exception its connect block caught
    chunk,        \* the decoded chunk its drain loop is about to send
    evs,          \* the events sent for the command being handled
    reads,        \* the raw chunks recv() returned to that command
    wrote,        \* what channel.send got from that command
    inflight,     \* commands read whose handling has not finished
    raised,       \* the exception that ended its loop
    failed,       \* the cleanup calls of its teardown that raised
    response      \* what generate_key returned last

vars == <<sessions, ssh_clients, files, issued, pc, sid, bridge, msg, exc,
          chunk, evs, reads, wrote, inflight, raised, failed, response>>

shared == <<sessions, ssh_clients, files, issued>>

\* SSHClient.__init__
\* SSHClient.__init__.  Besides the attributes of the object the record keeps
\* what the paramiko objects behind it are doing: closed - client.close() has
\* been called; live - the channel self.channel refers to is open.
NewBridge == [channel |-> NoChannel, hostname |-> NoAttr, username |-> NoAttr,
              closed |-> FALSE, live |-> FALSE]

Init ==
    /\ sessions = << >>
    /\ ssh_clients = << >>
    /\ files = [s \in SessionIds |-> NoFile]
    /\ issued = {}
    /\ pc = [c \in Conns |-> "new"]
    /\ sid = [c \in Conns |-> NoSid]
    /\ bridge = [c \in Conns |-> NoBridge]
    /\ msg = [c \in Conns |-> NoMsg]
    /\ exc = [c \in Conns |-> NoExc]
    /\ chunk = [c \in Conns |-> ""]
    /\ evs = [c \in Conns |-> << >>]
    /\ reads = [c \in Conns |-> << >>]
    /\ wrote = [c \in Conns |-> << >>]
    /\ inflight = [c \in Conns |-> 0]
    /\ raised = [c \in Conns |-> NoExc]
    /\ failed = [c \in Conns |-> {}]
    /\ response = << >>

\* the locals of one pass of the loop body, as they are when none is running
ResetLocals(c) ==
    /\ msg' = [msg EXCEPT ![c] = NoMsg]
    /\ exc' = [exc EXCEPT ![c] = NoExc]
    /\ chunk' = [chunk EXCEPT ![c] = ""]
    /\ evs' = [evs EXCEPT ![c] = << >>]
    /\ reads' = [reads EXCEPT ![c] = << >>]
    /\ wrote' = [wrote EXCEPT ![c] = << >>]

KeepLocals == UNCHANGED <<msg, exc, chunk, evs, reads, wrote>>

\* websocket.send_json(event) that succeeds
Emit(c, e) == evs' = [evs EXCEPT ![c] = Append(@, e)]

\* ------------------------------------------------------------------------
\* generate_key

\* a response that carries the whole key pair
KeyResponseWithPrivate(s) ==
    [publicKey |-> PublicKeySsh(s), sessionId |-> s,
     privateKey |-> PrivateKeyPem(s)]

\* line 83: the response of generate_key
KeyResponse(s) == [publicKey |-> PublicKeySsh(s), sessionId |-> s]

\* lines 66-83; uuid4 (line 80) returns an id it has not returned before
Provision(s) ==
    /\ s \in SessionIds \ issued
    /\ issued' = issued \cup {s}
    /\ sessions' = Put(sessions, s, PrivateKeyPem(s))
    /\ response' = KeyResponse(s)
    /\ UNCHANGED <<ssh_clients, files, pc, sid, bridge, inflight, raised, failed>>
    /\ KeepLocals

\* ------------------------------------------------------------------------
\* SSHClient

\* a connect that keeps the channel invoke_shell returns in a local instead
\* of self.channel
BridgeConnectNoChannel(b, host, username, outcome) ==
    IF outcome = "ok"
    THEN [b EXCEPT !.hostname = host, !.username = username]
    ELSE b

\* a connect that assigns hostname and username before the paramiko calls
BridgeConnectEager(b, host, username, outcome) ==
    IF outcome = "ok"
    THEN [b EXCEPT !.channel = ShellOf(username, host), !.hostname = host,
                   !.username = username, !.live = TRUE]
    ELSE [b EXCEPT !.hostname = host, !.username = username]

\* a connect that assigns hostname only on a bridge that has none yet
BridgeConnectStaleHost(b, host, username, outcome) ==
    IF outcome = "ok"
    THEN [b EXCEPT !.channel = ShellOf(username, host),
                   !.hostname = IF @ = NoAttr THEN host ELSE @,
                   !.username = username, !.live = TRUE]
    ELSE b

\* SSHClient.connect for each outcome of the two paramiko calls:
\* "auth"  - client.connect raises (authentication, host, protocol)
\* "shell" - client.connect returns and invoke_shell raises
\* "ok"    - both return: channel, hostname and username are assigned
\* A failed call assigns nothing, and the channel of an earlier call stays
\* on the transport of that call.
BridgeConnect(b, host, username, outcome) ==
    IF outcome = "ok"
    THEN [b EXCEPT !.channel = ShellOf(username, host), !.hostname = host,
                   !.username = username, !.live = TRUE]
    ELSE b

\* a close that closes the client only when there is no channel to close
BridgeCloseEither(b) ==
    IF b.channel /= NoChannel THEN [b EXCEPT !.live = FALSE]
                              ELSE [b EXCEPT !.closed = TRUE]

\* SSHClient.close: channel.close() if a channel is set, then client.close();
\* self.channel keeps its value.  Both paramiko calls return without effect
\* on an object that is closed already.
BridgeClose(b) == [b EXCEPT !.closed = TRUE, !.live = FALSE]

\* an execute_command that tests the paramiko client instead of the channel
HasChannelByClient(b) == ~b.closed

\* "if not self.channel" of execute_command
HasChannel(b) == b.channel /= NoChannel

\* a prompt with hostname and username exchanged
BridgePromptSwapped(b) == PromptEvent(PromptText(b.hostname, b.username))

\* the prompt execute_command ends with
BridgePrompt(b) == PromptEvent(PromptText(b.username, b.hostname))

\* channel.send(command + "\n"): None + "\n" raises TypeError, and send
\* raises socket.error when the channel is closed (up is false); NoExc when
\* the write returns
WriteError(args, up) ==
    IF args = NoValue THEN "TypeError" ELSE IF ~up THEN "OSError" ELSE NoExc

\* ------------------------------------------------------------------------
\* websocket_endpoint

\* a check against every id generate_key ever returned instead of the store
SessionKnownIssued(s) == s \in issued

\* "session_id not in sessions", negated
SessionKnown(s) == s \in DOMAIN sessions

\* lines 87-89: the check, and the refusal with close code 1008
Check(c, s) ==
    /\ pc[c] = "new"
    /\ sid' = [sid EXCEPT ![c] = s]
    /\ pc' = [pc EXCEPT ![c] = IF SessionKnown(s) THEN "accepting" ELSE "refused"]
    /\ UNCHANGED <<shared, bridge, inflight, raised, failed,
                   response>>
    /\ KeepLocals

\* lines 91-93: accept returns, the bridge is built and registered
Accept(c) ==
    /\ pc[c] = "accepting"
    /\ bridge' = [bridge EXCEPT ![c] = NewBridge]
    /\ ssh_clients' = Put(ssh_clients, sid[c], c)
    /\ pc' = [pc EXCEPT ![c] = "await"]
    /\ UNCHANGED <<sessions, files, issued, sid, inflight, raised, failed,
                   response>>
    /\ KeepLocals

\* the exception the handler of line 116 catches
Disconnect == "WebSocketDisconnect"
\* what a send_json on a dropped connection raises depends on the installed
\* starlette and server: WebSocketDisconnect or another exception
SendErrors == {Disconnect, "RuntimeError"}

\* a handler that empties the registry instead of removing its own entry
OnDisconnectClearsRegistry(c) ==
    /\ bridge' = [bridge EXCEPT ![c] = BridgeClose(@)]
    /\ ssh_clients' = << >>

\* lines 116-118: the handler of WebSocketDisconnect
OnDisconnect(c) ==
    /\ bridge' = [bridge EXCEPT ![c] = BridgeClose(@)]
    /\ ssh_clients' = Pop(ssh_clients, sid[c])

\* a finally block that forgets the key file
FinallyKeepsFile(c) ==
    /\ files' = files
    /\ sessions' = Pop(sessions, sid[c])

\* lines 119-122: the finally block
Finally(c) ==
    /\ files' = [files EXCEPT ![sid[c]] = NoFile]
    /\ sessions' = Pop(sessions, sid[c])

\* the loop ends with exception e: lines 116-122
Terminate(c, e) ==
    /\ IF e = Disconnect
       THEN OnDisconnect(c)
       ELSE UNCHANGED <<bridge, ssh_clients>>
    /\ Finally(c)
    /\ pc' = [pc EXCEPT ![c] = "done"]
    /\ raised' = [raised EXCEPT ![c] = e]
    /\ inflight' = [inflight EXCEPT ![c] = 0]
    /\ ResetLocals(c)
    /\ UNCHANGED <<issued, sid, failed, response>>

\* a loop that runs execute_command as a task of its own and reads the next
\* message while that task sleeps
CanReceiveWhileSleeping(c) == pc[c] \in {"await", "exec_sleep"}

\* the loop reads a message only at line 97
CanReceive(c) == pc[c] = "await"

\* receive_json raises WebSocketDisconnect
RecvDisconnect(c) ==
    /\ CanReceive(c)
    /\ Terminate(c, Disconnect)

\* receive_json raises on a frame that is not JSON, or message.get fails on
\* a JSON value that is not an object
RecvMalformed(c) ==
    /\ CanReceive(c)
    /\ Terminate(c, "JSONDecodeError")

\* a connect block that takes the key it wrote to the file of an earlier
\* connect instead of looking the session up
ConnectBlockNoLookup(c, host, username, outcome) ==
    /\ files' = [files EXCEPT ![sid[c]] = PrivateKeyPem(sid[c])]
    /\ bridge' = [bridge EXCEPT ![c] = BridgeConnect(@, host, username, outcome)]
    /\ exc' = [exc EXCEPT ![c] = IF outcome = "ok" THEN NoExc ELSE outcome]
    /\ pc' = [pc EXCEPT ![c] = IF outcome = "ok" THEN "conn_prompt" ELSE "conn_error"]

\* lines 104-109 for a connect message: the key file is opened for writing
\* (created or truncated), sessions[session_id] is written to it, and the
\* bridge connects.  A session id no longer in the store raises KeyError
\* after the file was opened.
ConnectBlock(c, host, username, outcome) ==
    LET known == sid[c] \in DOMAIN sessions
        res == IF known THEN outcome ELSE "keyerror"
    IN  /\ files' = [files EXCEPT ![sid[c]] =
                        IF known THEN sessions[sid[c]] ELSE EmptyFile]
        /\ bridge' = [bridge EXCEPT ![c] = BridgeConnect(@, host, username, res)]
        /\ exc' = [exc EXCEPT ![c] = IF res = "ok" THEN NoExc ELSE res]
        /\ pc' = [pc EXCEPT ![c] = IF res = "ok" THEN "conn_prompt" ELSE "conn_error"]

\* lines 97-109: a connect message is read and handled up to its send
RecvConnect(c, host, username, outcome) ==
    /\ CanReceive(c)
    /\ msg' = [msg EXCEPT ![c] = [command |-> "connect", host |-> host,
                                  username |-> username]]
    /\ ConnectBlock(c, host, username, outcome)
    /\ inflight' = [inflight EXCEPT ![c] = @ + 1]
    /\ evs' = [evs EXCEPT ![c] = << >>]
    /\ reads' = [reads EXCEPT ![c] = << >>]
    /\ wrote' = [wrote EXCEPT ![c] = << >>]
    /\ UNCHANGED <<sessions, ssh_clients, issued, sid, chunk, raised, failed,
                   response>>

\* line 110
SendConnectPrompt(c) ==
    /\ pc[c] = "conn_prompt"
    /\ Emit(c, PromptEvent(PromptText(msg[c].username, msg[c].host)))
    /\ pc' = [pc EXCEPT ![c] = "loop"]
    /\ UNCHANGED <<shared, sid, bridge, msg, exc, chunk, reads, wrote, inflight,
                   raised, failed,
                   response>>

\* line 112
SendConnectError(c) ==
    /\ pc[c] = "conn_error"
    /\ Emit(c, ErrorEvent(StrExc(exc[c])))
    /\ pc' = [pc EXCEPT ![c] = "loop"]
    /\ UNCHANGED <<shared, sid, bridge, msg, exc, chunk, reads, wrote, inflight,
                   raised, failed,
                   response>>

\* the loop of lines 96-114 is running / has ended
Running(c) == pc[c] \notin {"new", "refused", "accepting", "done"}
Terminated(c) == pc[c] = "done"

\* line 92 has run: the connection has its SSHClient
HasBridge(c) == Running(c) \/ Terminated(c)

\* the remote end closes the channel self.channel refers to (the shell
\* exits, the server goes away); the bridge's attributes stay as they are.
\* The code looks at the channel only when it writes a command, so the close
\* is placed where the coroutine waits for the next one.
RemoteClose(c) ==
    /\ pc[c] = "await"
    /\ bridge[c].live
    /\ bridge' = [bridge EXCEPT ![c].live = FALSE]
    /\ UNCHANGED <<shared, pc, sid, inflight, raised, failed, response>>
    /\ KeepLocals

\* lines 97-98 and 113-114 with execute_command up to its first await: with
\* no channel the error is about to be sent (line 42); else the command is
\* written to the channel (line 45) and the coroutine sleeps (line 47), or
\* the write raises and the exception leaves the loop
RecvExecute(c, args, up) ==
    /\ CanReceive(c)
    /\ IF ~HasChannel(bridge[c])
       THEN /\ pc' = [pc EXCEPT ![c] = "exec_nosession"]
            /\ msg' = [msg EXCEPT ![c] = [command |-> "execute", args |-> args]]
            /\ inflight' = [inflight EXCEPT ![c] = @ + 1]
            /\ evs' = [evs EXCEPT ![c] = << >>]
            /\ reads' = [reads EXCEPT ![c] = << >>]
            /\ wrote' = [wrote EXCEPT ![c] = << >>]
            /\ UNCHANGED <<shared, sid, bridge, exc, chunk, raised, failed,
                   response>>
       ELSE IF WriteError(args, up) = NoExc
       THEN /\ pc' = [pc EXCEPT ![c] = "exec_sleep"]
            /\ msg' = [msg EXCEPT ![c] = [command |-> "execute", args |-> args]]
            /\ inflight' = [inflight EXCEPT ![c] = @ + 1]
            /\ evs' = [evs EXCEPT ![c] = << >>]
            /\ reads' = [reads EXCEPT ![c] = << >>]
            /\ wrote' = [wrote EXCEPT ![c] = <<args>>]
            /\ UNCHANGED <<shared, sid, bridge, exc, chunk, raised, failed,
                   response>>
       ELSE Terminate(c, WriteError(args, up))

\* line 42, and the return of line 43
SendNoSession(c) ==
    /\ pc[c] = "exec_nosession"
    /\ Emit(c, ErrorEvent(NoActiveSession))
    /\ pc' = [pc EXCEPT ![c] = "loop"]
    /\ UNCHANGED <<shared, sid, bridge, msg, exc, chunk, reads, wrote, inflight,
                   raised, failed,
                   response>>

\* line 47: the settle interval is over
Settle(c) ==
    /\ pc[c] = "exec_sleep"
    /\ pc' = [pc EXCEPT ![c] = "exec_drain"]
    /\ UNCHANGED <<shared, sid, bridge, inflight, raised, failed,
                   response>>
    /\ KeepLocals

\* lines 50-52: recv_ready() is true, recv returns raw chunk b and it is
\* decoded; bytes that do not decode raise out of the loop
DrainRead(c, b) ==
    /\ pc[c] = "exec_drain"
    /\ Len(reads[c]) < MaxChunks
    /\ IF DecodeOk(b)
       THEN /\ reads' = [reads EXCEPT ![c] = Append(@, b)]
            /\ chunk' = [chunk EXCEPT ![c] = DecodeUtf8(b)]
            /\ pc' = [pc EXCEPT ![c] = "exec_output"]
            /\ UNCHANGED <<shared, sid, bridge, msg, exc, evs, wrote, inflight,
                           raised, failed,
                   response>>
       ELSE Terminate(c, "UnicodeDecodeError")

\* line 53
SendOutput(c) ==
    /\ pc[c] = "exec_output"
    /\ Emit(c, OutputEvent(chunk[c]))
    /\ pc' = [pc EXCEPT ![c] = "exec_drain"]
    /\ UNCHANGED <<shared, sid, bridge, msg, exc, chunk, reads, wrote, inflight,
                   raised, failed,
                   response>>

\* line 50: recv_ready() is false, the drain loop ends
DrainEnd(c) ==
    /\ pc[c] = "exec_drain"
    /\ pc' = [pc EXCEPT ![c] = "exec_prompt"]
    /\ UNCHANGED <<shared, sid, bridge, inflight, raised, failed,
                   response>>
    /\ KeepLocals

\* line 55
SendExecutePrompt(c) ==
    /\ pc[c] = "exec_prompt"
    /\ Emit(c, BridgePrompt(bridge[c]))
    /\ pc' = [pc EXCEPT ![c] = "loop"]
    /\ UNCHANGED <<shared, sid, bridge, msg, exc, chunk, reads, wrote, inflight,
                   raised, failed,
                   response>>

\* lines 100 and 113: a message whose command is neither connect nor execute
RecvOther(c) ==
    /\ CanReceive(c)
    /\ msg' = [msg EXCEPT ![c] = [command |-> "other"]]
    /\ pc' = [pc EXCEPT ![c] = "loop"]
    /\ inflight' = [inflight EXCEPT ![c] = @ + 1]
    /\ evs' = [evs EXCEPT ![c] = << >>]
    /\ reads' = [reads EXCEPT ![c] = << >>]
    /\ wrote' = [wrote EXCEPT ![c] = << >>]
    /\ UNCHANGED <<shared, sid, bridge, exc, chunk, raised, failed,
                   response>>

\* the places where the coroutine is inside a send_json
SendPoints == {"conn_prompt", "conn_error", "exec_nosession", "exec_output",
               "exec_prompt"}

\* a send_json raises because the client has gone.  In the connect block the
\* handler of line 111 catches it and its own send_json (line 112) raises
\* again; everywhere the exception leaves the loop.
SendFails(c, e) ==
    /\ pc[c] \in SendPoints
    /\ e \in SendErrors
    /\ Terminate(c, e)

\* line 96: the body is done, the loop goes back to receive_json
Loop(c) ==
    /\ pc[c] = "loop"
    /\ pc' = [pc EXCEPT ![c] = "await"]
    /\ inflight' = [inflight EXCEPT ![c] = @ - 1]
    /\ ResetLocals(c)
    /\ UNCHANGED <<shared, sid, bridge, raised, failed,
                   response>>

\* ------------------------------------------------------------------------

Next ==
    \/ \E s \in SessionIds : Provision(s)
    \/ \E c \in Conns, s \in SessionIds : Check(c, s)
    \/ \E c \in Conns : Accept(c)
    \/ \E c \in Conns : RecvDisconnect(c)
    \/ \E c \in Conns : RecvMalformed(c)
    \/ \E c \in Conns, h \in Hosts, u \in Users, o \in {"ok", "auth", "shell"} :
          RecvConnect(c, h, u, o)
    \/ \E c \in Conns : SendConnectPrompt(c)
    \/ \E c \in Conns : SendConnectError(c)
    \/ \E c \in Conns, a \in Args : RecvExecute(c, a, bridge[c].live)
    \/ \E c \in Conns : RemoteClose(c)
    \/ \E c \in Conns : SendNoSession(c)
    \/ \E c \in Conns : Settle(c)
    \/ \E c \in Conns, b \in RawChunks : DrainRead(c, b)
    \/ \E c \in Conns : SendOutput(c)
    \/ \E c \in Conns : DrainEnd(c)
    \/ \E c \in Conns : SendExecutePrompt(c)
    \/ \E c \in Conns : RecvOther(c)
    \/ \E c \in Conns, e \in SendErrors : SendFails(c, e)
    \/ \E c \in Conns : Loop(c)

Spec == Init /\ [][Next]_vars

\* ------------------------------------------------------------------------
\* Teardown whose cleanup calls raise

\* the calls of lines 116-122 that can raise: ssh_client.close() (117) and
\* os.remove (121); dict.pop with a default (118, 122) cannot
CleanupCalls == {"close", "remove"}

\* lines 116-122 when the calls in fails raise.  close() raising leaves the
\* handler before line 118; os.remove raising leaves the finally block
\* before line 122; os.remove is called only when the file exists.
TerminateFaulty(c, e, fails) ==
    LET closeOk == e = Disconnect /\ "close" \notin fails
        closeFails == e = Disconnect /\ "close" \in fails
        removeFails == files[sid[c]] /= NoFile /\ "remove" \in fails
    IN  /\ closeFails \/ removeFails
        /\ bridge' = [bridge EXCEPT ![c] = IF closeOk THEN BridgeClose(@) ELSE @]
        /\ ssh_clients' = IF closeOk THEN Pop(ssh_clients, sid[c]) ELSE ssh_clients
        /\ files' = IF removeFails THEN files
                                   ELSE [files EXCEPT ![sid[c]] = NoFile]
        /\ sessions' = IF removeFails THEN sessions ELSE Pop(sessions, sid[c])
        /\ failed' = [failed EXCEPT ![c] =
                         (IF closeFails THEN {"close"} ELSE {}) \cup
                         (IF removeFails THEN {"remove"} ELSE {})]
        /\ pc' = [pc EXCEPT ![c] = "done"]
        /\ raised' = [raised EXCEPT ![c] = e]
        /\ inflight' = [inflight EXCEPT ![c] = 0]
        /\ ResetLocals(c)
        /\ UNCHANGED <<issued, sid, response>>

\* receive_json raises e and cleanup calls of the teardown raise too
RecvFailsFaulty(c, e, fails) ==
    /\ CanReceive(c)
    /\ e \in {Disconnect, "JSONDecodeError"}
    /\ TerminateFaulty(c, e, fails)

NextFaults ==
    \/ Next
    \/ \E c \in Conns, e \in {Disconnect, "JSONDecodeError"},
          fails \in SUBSET CleanupCalls : RecvFailsFaulty(c, e, fails)

\* the gateway in an environment where ssh_client.close() and os.remove can
\* raise
SpecFaults == Init /\ [][NextFaults]_vars

\* ------------------------------------------------------------------------
\* SSHClient.close called twice on one object

\* the states an SSHClient can be in: never connected, connected with its
\* channel open or closed by the remote end, and each of them after close()
BridgeStates ==
    LET connected == {[NewBridge EXCEPT !.channel = ShellOf(u, h),
                                        !.hostname = h, !.username = u,
                                        !.live = l] :
                         h \in Hosts, u \in Users, l \in BOOLEAN}
        open == {NewBridge} \cup connected
    IN  open \cup {BridgeClose(b) : b \in open}

\* every connection holds an SSHClient in one of its states and is about to
\* call close() on it
InitClose ==
    /\ sessions = << >>
    /\ ssh_clients = << >>
    /\ files = [s \in SessionIds |-> NoFile]
    /\ issued = {}
    /\ pc = [c \in Conns |-> "closing"]
    /\ sid = [c \in Conns |-> NoSid]
    /\ bridge \in [Conns -> BridgeStates]
    /\ msg = [c \in Conns |-> NoMsg]
    /\ exc = [c \in Conns |-> NoExc]
    /\ chunk = [c \in Conns |-> ""]
    /\ evs = [c \in Conns |-> << >>]
    /\ reads = [c \in Conns |-> << >>]
    /\ wrote = [c \in Conns |-> << >>]
    /\ inflight = [c \in Conns |-> 0]
    /\ raised = [c \in Conns |-> NoExc]
    /\ failed = [c \in Conns |-> {}]
    /\ response = << >>

\* lines 35-38, the first call
CloseOnce(c) ==
    /\ pc[c] = "closing"
    /\ bridge' = [bridge EXCEPT ![c] = BridgeClose(@)]
    /\ pc' = [pc EXCEPT ![c] = "closing_again"]
    /\ UNCHANGED <<shared, sid, inflight, raised, failed, response>>
    /\ KeepLocals

\* lines 35-38, the second call on the same object
CloseAgain(c) ==
    /\ pc[c] = "closing_again"
    /\ bridge' = [bridge EXCEPT ![c] = BridgeClose(@)]
    /\ pc' = [pc EXCEPT ![c] = "done"]
    /\ UNCHANGED <<shared, sid, inflight, raised, failed, response>>
    /\ KeepLocals

NextClose ==
    \/ \E c \in Conns : CloseOnce(c)
    \/ \E c \in Conns : CloseAgain(c)

SpecClose == InitClose /\ [][NextClose]_vars

\* ------------------------------------------------------------------------
\* Type correctness

Locations == {"new", "refused", "accepting", "await", "conn_prompt",
              "conn_error", "exec_nosession", "exec_sleep", "exec_drain",
              "exec_output", "exec_prompt", "loop", "done"}


TypeOK ==
    /\ DOMAIN sessions \subseteq SessionIds
    /\ DOMAIN ssh_clients \subseteq SessionIds
    /\ \A s \in DOMAIN ssh_clients : ssh_clients[s] \in Conns
    /\ issued \subseteq SessionIds
    /\ \A c \in Conns :
          /\ pc[c] \in Locations
          /\ sid[c] \in SessionIds \cup {NoSid}
          /\ Len(reads[c]) <= MaxChunks
          /\ Len(wrote[c]) <= 1
          /\ HasBridge(c)
                => (bridge[c].live => bridge[c].channel /= NoChannel)

\* ------------------------------------------------------------------------
\* Refusal of unknown session ids

\* C1: a connection opened with a session id that is not in the store is
\* refused, and the refused call registers no bridge and creates no key
\* file: the step that decides it leaves the registry and the files as they
\* were, the connection never gets a bridge and is never the registered one,
\* and an id that was never provisioned has no registry entry and no key
\* file at all.
C1_RefusedAllocatesNothing ==
    [][\A c \in Conns :
          /\ (pc[c] = "new" /\ pc'[c] /= "new" /\ sid'[c] \notin DOMAIN sessions)
                => /\ pc'[c] = "refused"
                   /\ ssh_clients' = ssh_clients
                   /\ files' = files
                   /\ sessions' = sessions
          /\ pc'[c] = "refused"
                => /\ bridge'[c] = NoBridge
                   /\ \A s \in DOMAIN ssh_clients' : ssh_clients'[s] /= c
                   /\ sid'[c] \notin issued'
                         => /\ sid'[c] \notin DOMAIN ssh_clients'
                            /\ files'[sid'[c]] = NoFile
      ]_vars

\* a connection was refused for an id that had been provisioned and whose
\* entry the teardown of a finished connection removed
C1_Witness ==
    \E c, d \in Conns :
        /\ pc[c] = "refused" /\ pc[d] = "done"
        /\ sid[c] = sid[d]
        /\ sid[c] \in issued \ DOMAIN sessions

\* ------------------------------------------------------------------------
\* Teardown

\* C2: the step that ends the loop of an accepted connection, whatever
\* exception ends it, leaves no key file of its session and no store entry
\* of its session id; the store never holds that id again, and no key file
\* of the session exists once every connection opened with that id has
\* ended.
C2_TeardownLeavesNoCredential ==
    [][\A c \in Conns :
          /\ (~Terminated(c) /\ Terminated(c)')
                => /\ files'[sid[c]] = NoFile
                   /\ sid[c] \notin DOMAIN sessions'
          /\ Terminated(c)'
                => /\ sid'[c] \notin DOMAIN sessions'
                   /\ (\A d \in Conns :
                          sid'[d] = sid'[c] => pc'[d] \in {"refused", "done"})
                         => files'[sid'[c]] = NoFile
      ]_vars

\* a loop that ended on an exception other than WebSocketDisconnect, with
\* the key written by a connect of that connection
C2_Witness ==
    \E c \in Conns :
        /\ Terminated(c)
        /\ raised[c] = "UnicodeDecodeError"
        /\ files[sid[c]] = NoFile
        /\ sid[c] \notin DOMAIN sessions

\* C3: when the loop has ended, the bridge has been closed and it is not in
\* the registry.
C3_TeardownClosesBridge ==
    \A c \in Conns :
        Terminated(c)
           => /\ bridge[c].closed
              /\ \A s \in DOMAIN ssh_clients : ssh_clients[s] /= c

\* C4: when the event answering a connect has been sent, and while the loop
\* awaits the next command, the session has no key file.
C4_KeyFileRemovedAfterConnect ==
    \A c \in Conns :
        pc[c] \in {"loop", "await"} => files[sid[c]] = NoFile

\* ------------------------------------------------------------------------
\* execute

\* C5: an execute read while the bridge has no channel sends exactly one
\* event, the error "No active SSH session", writes nothing to a channel,
\* reads nothing, leaves the bridge as it was, and the loop goes back to
\* await the next command (unless the send itself fails because the client
\* has gone); no write is attempted, so no step from such a bridge ends
\* with the exception of a write.
C5_ExecuteWithoutSession ==
    [][\A c \in Conns :
          /\ (pc[c] = "await" /\ bridge[c].channel = NoChannel
                 /\ msg'[c].command = "execute")
                => /\ pc'[c] = "exec_nosession"
                   /\ evs'[c] = << >> /\ wrote'[c] = << >> /\ reads'[c] = << >>
                   /\ bridge'[c] = bridge[c]
          /\ (pc[c] = "await" /\ bridge[c].channel = NoChannel)
                => raised'[c] \notin {"OSError", "TypeError"}
          /\ (pc[c] = "exec_nosession" /\ pc'[c] /= pc[c])
                => \/ Terminated(c)' /\ raised'[c] \in SendErrors
                   \/ /\ pc'[c] = "loop"
                      /\ evs'[c] = <<[type |-> "error",
                                      content |-> "No active SSH session"]>>
                      /\ wrote'[c] = << >> /\ reads'[c] = << >>
                      /\ bridge'[c] = bridge[c]
          /\ (pc[c] = "loop" /\ msg[c].command = "execute"
                 /\ bridge[c].channel = NoChannel /\ pc'[c] /= pc[c])
                => /\ pc'[c] = "await"
                   /\ evs[c] = <<[type |-> "error",
                                  content |-> "No active SSH session"]>>
                   /\ bridge'[c] = bridge[c]
      ]_vars

\* the error of an execute without a session has been sent
C5_Witness ==
    \E c \in Conns :
        /\ pc[c] = "loop" /\ msg[c].command = "execute"
        /\ bridge[c].channel = NoChannel
        /\ Len(evs[c]) = 1 /\ evs[c][1].type = "error"

\* the output events of the raw chunks rs, in read order
OutputsOf(rs) ==
    [i \in 1..Len(rs) |-> [type |-> "output", content |-> DecodeUtf8(rs[i])]]

\* C6: an execute on a bridge with a channel, whose write and reads do not
\* raise, sends one output event per chunk read, in read order, and then
\* exactly one prompt "{username}@{hostname}:~$" of the bridge, which is its
\* last event, also when no chunk was read.
C6_ExecuteOutputsThenPrompt ==
    \A c \in Conns :
        /\ pc[c] \in {"exec_sleep", "exec_drain", "exec_prompt"}
              => evs[c] = OutputsOf(reads[c])
        /\ pc[c] = "exec_output"
              => /\ reads[c] /= << >>
                 /\ evs[c] = OutputsOf(SubSeq(reads[c], 1, Len(reads[c]) - 1))
                 /\ chunk[c] = DecodeUtf8(reads[c][Len(reads[c])])
        /\ (pc[c] = "loop" /\ msg[c].command = "execute"
               /\ bridge[c].channel /= NoChannel)
              => /\ wrote[c] = <<msg[c].args>>
                 /\ evs[c] = OutputsOf(reads[c]) \o
                       <<[type |-> "prompt",
                          content |-> bridge[c].username \o "@" \o
                                      bridge[c].hostname \o ":~$"]>>

\* one execute has finished after two different chunks, another after none
C6_Witness ==
    \E c, d \in Conns :
        /\ pc[c] = "loop" /\ msg[c].command = "execute"
        /\ Len(reads[c]) = 2 /\ reads[c][1] /= reads[c][2] /\ Len(evs[c]) = 3
        /\ pc[d] = "loop" /\ msg[d].command = "execute"
        /\ bridge[d].channel /= NoChannel
        /\ reads[d] = << >> /\ Len(evs[d]) = 1

\* C7: on one connection a command is read only when no command is being
\* handled, every event is sent while exactly one command is being handled,
\* and never more than one command is in flight.
C7_OneCommandInFlight ==
    [][\A c \in Conns :
          /\ inflight'[c] <= 1
          /\ inflight'[c] > inflight[c]
                => inflight[c] = 0 /\ pc[c] = "await" /\ evs[c] = << >>
          /\ (evs'[c] /= evs[c] /\ evs'[c] /= << >>)
                => inflight[c] = 1 /\ inflight'[c] = 1
          /\ pc'[c] = "await" => inflight'[c] = 0 /\ evs'[c] = << >>
      ]_vars

\* an execute is sending output after the connect before it has finished
C7_Witness ==
    \E c \in Conns :
        /\ pc[c] = "exec_output" /\ inflight[c] = 1
        /\ Len(evs[c]) = 1 /\ bridge[c].channel /= NoChannel

\* ------------------------------------------------------------------------
\* connect

\* C8: a connect that succeeds sends exactly one event, the prompt
\* "{username}@{host}:~$" of the message's own host and username, and leaves
\* the bridge with a channel; an execute is rejected with "No active SSH
\* session" only on a bridge without a channel.
C8_ConnectSuccess ==
    \A c \in Conns :
        /\ pc[c] = "conn_prompt"
              => /\ evs[c] = << >>
                 /\ bridge[c].channel /= NoChannel
                 /\ bridge[c].hostname = msg[c].host
                 /\ bridge[c].username = msg[c].username
        /\ (pc[c] = "loop" /\ msg[c].command = "connect" /\ exc[c] = NoExc)
              => /\ evs[c] = <<[type |-> "prompt",
                                content |-> msg[c].username \o "@" \o
                                            msg[c].host \o ":~$"]>>
                 /\ bridge[c].channel /= NoChannel
                 /\ ~bridge[c].closed
        /\ pc[c] = "exec_nosession" => bridge[c].channel = NoChannel

\* the prompt of a successful connect has been sent
C8_Witness ==
    \E c \in Conns :
        /\ pc[c] = "loop" /\ msg[c].command = "connect" /\ exc[c] = NoExc
        /\ Len(evs[c]) = 1 /\ evs[c][1].type = "prompt"
        /\ bridge[c].hostname = "h2"

\* C9: a connect that fails sends exactly one event, an error, and no
\* prompt, leaves the bridge as it was (a bridge without a channel stays
\* without one), leaves the store as it was, and the loop goes back to await
\* the next command (unless the send itself fails because the client has
\* gone).
C9_ConnectFailure ==
    [][\A c \in Conns :
          /\ (pc[c] = "await" /\ pc'[c] = "conn_error")
                => /\ bridge'[c] = bridge[c]
                   /\ sessions' = sessions
                   /\ exc'[c] /= NoExc
                   /\ evs'[c] = << >>
          /\ (pc[c] = "conn_error" /\ pc'[c] /= pc[c])
                => \/ Terminated(c)' /\ raised'[c] \in SendErrors
                   \/ /\ pc'[c] = "loop"
                      /\ bridge'[c] = bridge[c]
                      /\ Len(evs'[c]) = 1
                      /\ evs'[c][1].type = "error"
          /\ (pc[c] = "loop" /\ msg[c].command = "connect" /\ exc[c] /= NoExc
                 /\ pc'[c] /= pc[c])
                => pc'[c] = "await" /\ bridge'[c] = bridge[c] /\ ~bridge'[c].closed
          /\ (pc[c] = "await" /\ msg'[c].command = "connect"
                 /\ sid[c] \notin DOMAIN sessions)
                => pc'[c] = "conn_error"
      ]_vars

\* the error of a connect rejected by the host has been sent on a bridge
\* without a channel
C9_Witness ==
    \E c \in Conns :
        /\ pc[c] = "loop" /\ msg[c].command = "connect" /\ exc[c] = "auth"
        /\ Len(evs[c]) = 1 /\ evs[c][1].type = "error"
        /\ bridge[c].channel = NoChannel

\* C10: the loop never ends because the write or the drain of an execute
\* failed.
C10_ExecuteFailureKeepsLoop ==
    \A c \in Conns :
        Terminated(c) => raised[c] \notin {"OSError", "UnicodeDecodeError"}

\* ------------------------------------------------------------------------
\* Sessions side by side

\* what the store, the registry and the disk hold for session id s
StoreEntry(s) == IF s \in DOMAIN sessions THEN sessions[s] ELSE NoValue
RegistryEntry(s) == IF s \in DOMAIN ssh_clients THEN ssh_clients[s] ELSE NoValue

\* C11: a step of the task of one session leaves alone every connection
\* opened with another session id: its store entry, its registry entry, its
\* key file, its bridge and its place in its own loop stay as they were, and
\* no event is sent on it.
C11_SessionsIsolated ==
    [][\A c, d \in Conns :
          (pc'[c] /= pc[c] /\ sid[d] /= NoSid /\ sid'[c] /= sid[d])
             => /\ StoreEntry(sid[d])' = StoreEntry(sid[d])
                /\ RegistryEntry(sid[d])' = RegistryEntry(sid[d])
                /\ files'[sid[d]] = files[sid[d]]
                /\ bridge'[d] = bridge[d]
                /\ evs'[d] = evs[d]
                /\ pc'[d] = pc[d] /\ sid'[d] = sid[d]
      ]_vars

\* one session has been torn down while the connection of another session
\* keeps its store entry, its registration, its key file and its channel
C11_Witness ==
    \E c, d \in Conns :
        /\ pc[c] = "done" /\ raised[c] = Disconnect
        /\ sid[c] /= sid[d]
        /\ pc[d] = "exec_output"
        /\ sid[d] \in DOMAIN sessions
        /\ RegistryEntry(sid[d]) = d
        /\ files[sid[d]] = sessions[sid[d]]
        /\ bridge[d].channel /= NoChannel

\* C12: no connect makes a bridge ready for a session id that is not in the
\* store when the connect is handled: such a connect ends in an error and
\* leaves the bridge as it was, also after another connection opened with
\* the same id has been torn down.
C12_AbsentIdNeverConnects ==
    [][\A c \in Conns :
          /\ (pc[c] = "await" /\ pc'[c] = "conn_prompt")
                => sid[c] \in DOMAIN sessions
          /\ (pc[c] = "await" /\ msg'[c].command = "connect"
                 /\ sid[c] \notin DOMAIN sessions)
                => /\ pc'[c] = "conn_error"
                   /\ bridge'[c] = bridge[c]
                   /\ files'[sid[c]] \notin {sessions'[s] : s \in DOMAIN sessions'}
                                       \cup {PrivateKeyPem(sid[c])}
      ]_vars

\* a connect was refused with KeyError on a connection whose session id the
\* teardown of another connection removed from the store
C12_Witness ==
    \E c, d \in Conns :
        /\ c /= d /\ sid[c] = sid[d]
        /\ pc[d] = "done"
        /\ pc[c] = "conn_error" /\ exc[c] = "keyerror"
        /\ bridge[c].channel = NoChannel

\* ------------------------------------------------------------------------
\* Provisioning

\* C13: a provisioning call adds exactly one store entry, under an id that
\* no earlier call returned and that no store entry, registry entry or open
\* connection uses, leaves the other store entries, the registry and the key
\* files as they were, and returns the public key and the id and nothing
\* else: not the private key it stored.
C13_ProvisionAddsOneEntry ==
    [][(issued' /= issued \/ response' /= response)
          => \E s \in SessionIds :
                /\ s \notin issued /\ issued' = issued \cup {s}
                /\ s \notin DOMAIN sessions /\ s \notin DOMAIN ssh_clients
                /\ \A c \in Conns : sid[c] = s => pc[c] = "refused"
                /\ DOMAIN sessions' = DOMAIN sessions \cup {s}
                /\ \A x \in DOMAIN sessions : sessions'[x] = sessions[x]
                /\ ssh_clients' = ssh_clients
                /\ files' = files
                /\ DOMAIN response' = {"publicKey", "sessionId"}
                /\ response'.sessionId = s
                /\ response'.publicKey = "ssh-ed25519 pub_" \o s
                /\ \A f \in DOMAIN response' : response'[f] /= sessions'[s]
      ]_vars

\* a second session was provisioned while the first one has a connected
\* bridge
C13_Witness ==
    /\ issued = {"s1", "s2"}
    /\ DOMAIN sessions = {"s1", "s2"}
    /\ response.sessionId = "s2"
    /\ \E c \in Conns :
          /\ sid[c] = "s1" /\ pc[c] = "await"
          /\ bridge[c].channel /= NoChannel
          /\ RegistryEntry("s1") = c

\* ------------------------------------------------------------------------
\* Cleanup calls that raise

\* C14: when exactly one of the four cleanup actions of a teardown failed,
\* the other three have been performed: the bridge is closed, it is not in
\* the registry, the key file is gone and the store entry is gone.
C14_CleanupIndependent ==
    \A c \in Conns :
        (Terminated(c) /\ Cardinality(failed[c]) = 1)
           => /\ "close" \notin failed[c] => bridge[c].closed
              /\ \A s \in DOMAIN ssh_clients : ssh_clients[s] /= c
              /\ "remove" \notin failed[c] => files[sid[c]] = NoFile
              /\ sid[c] \notin DOMAIN sessions

\* ------------------------------------------------------------------------
\* Execute on a channel that is no longer open

\* C15: an execute with a command line, received while the bridge has no
\* open channel (none was ever opened, or the one it refers to has been
\* closed), is answered with an Error event and nothing is written to the
\* channel: the step that receives it goes to the send of the error and no
\* write is attempted, so none raises.
C15_NoIoWithoutLiveChannel ==
    [][\A c \in Conns :
          (/\ pc[c] = "await"
           /\ ~bridge[c].live
           /\ pc'[c] /= "await"
           /\ \/ msg'[c].command = "execute"
              \/ raised'[c] = "OSError")
             => /\ pc'[c] = "exec_nosession"
                /\ wrote'[c] = << >>
                /\ raised'[c] = NoExc]_vars

\* ------------------------------------------------------------------------
\* Idempotence of close

C17_ConnectKeepsStoreEntry ==
    [][\A c \in Conns :
          /\ (pc[c] = "await" /\ msg'[c].command = "connect")
                => /\ sessions' = sessions
                   /\ sid[c] \in DOMAIN sessions
                   /\ exc'[c] /= "keyerror"
          /\ (Running(c) /\ sid[c] \in DOMAIN sessions
                         /\ sid[c] \notin DOMAIN sessions')
                => Terminated(c)']_vars

\* ------------------------------------------------------------------------
\* Ownership of the per-session state

\* C18: while the loop of an accepted connection is running, the store holds
\* the entry of its session id and the registry maps that id to this
\* connection's bridge.
C18_OneOwner ==
    \A c \in Conns :
        Running(c)
           => /\ sid[c] \in DOMAIN sessions
              /\ sid[c] \in DOMAIN ssh_clients
              /\ ssh_clients[sid[c]] = c

\* ------------------------------------------------------------------------
\* Channels at the end of a session

\* C19: when a connection's teardown has completed, the channel its bridge
\* refers to is not open any more.
C19_ChannelClosedByTeardown ==
    \A c \in Conns : Terminated(c) => ~bridge[c].live

\* ------------------------------------------------------------------------
\* The bridge's hostname and username

\* C20: whenever a bridge has a channel its hostname and username are
\* defined and are those the channel was opened with; a successful connect
\* makes them those of its message, and no other step of the loop (a failed
\* connect on a bridge that has a channel included) changes channel,
\* hostname or username; so the prompt that ends an execute names the
\* username and hostname of the most recent successful connect.
C20_PromptNamesLatestConnect ==
    [][\A c \in Conns :
          HasBridge(c)'
             => /\ bridge'[c].channel /= NoChannel
                      => /\ bridge'[c].hostname /= NoAttr
                         /\ bridge'[c].username /= NoAttr
                         /\ bridge'[c].channel =
                               "shell:" \o bridge'[c].username \o "@" \o
                               bridge'[c].hostname
                /\ (pc[c] = "await" /\ pc'[c] = "conn_prompt")
                      => bridge'[c].channel =
                            "shell:" \o msg'[c].username \o "@" \o msg'[c].host
                /\ (HasBridge(c) /\ ~(pc[c] = "await" /\ pc'[c] = "conn_prompt"))
                      => /\ bridge'[c].channel = bridge[c].channel
                         /\ bridge'[c].hostname = bridge[c].hostname
                         /\ bridge'[c].username = bridge[c].username
                /\ (pc[c] = "exec_prompt" /\ pc'[c] = "loop")
                      => /\ bridge'[c].channel /= NoChannel
                         /\ evs'[c][Len(evs'[c])] =
                               [type |-> "prompt",
                                content |-> bridge'[c].username \o "@" \o
                                            bridge'[c].hostname \o ":~$"]]_vars

\* one connection's connect to another host has failed on a bridge that has
\* a channel, and another connection, whose latest successful connect was to
\* h2, has ended an execute with its prompt
C20_Witness ==
    \E c, d \in Conns :
        /\ pc[c] = "conn_error" /\ exc[c] \in {"auth", "shell"}
        /\ bridge[c].channel /= NoChannel
        /\ msg[c].host /= bridge[c].hostname
        /\ pc[d] = "loop" /\ msg[d].command = "execute"
        /\ bridge[d].hostname = "h2"
        /\ Len(evs[d]) >= 1
        /\ evs[d][Len(evs[d])] = PromptEvent(PromptText("u1", "h2"))

====
